---- MODULE Spec2Model ----
(***************************************************************************)
(* Model of the StudyEZ query pipeline: POST /api/query                    *)
(* (app/api/query/route.ts), the hybrid retrieval query hybridSearch       *)
(* (lib/db.ts), the reranker adapter LLMService.rerankDocuments            *)
(* (lib/services/llm-service.ts, reached through lib/rag.ts) and           *)
(* AIResponseParser (lib/utils/ai-response-parser.ts).                     *)
(*                                                                         *)
(* The route imports rerankDocuments from lib/rag, which delegates to        *)
(* LLMService.rerankDocuments (.github/copilot-instructions.md: "rag.ts --  *)
(* RAG operations (delegates to services)"); the adapter modelled here is   *)
(* therefore the one of llm-service.ts.  hybridSearch is the five-argument  *)
(* version the route calls.                                                 *)
(*                                                                         *)
(* Numbers.  SQL numerics and JavaScript numbers are modelled as exact     *)
(* rationals [nan, n, d] with d > 0; nan stands for a JavaScript value     *)
(* that is not a number (NaN, undefined, a string); a relevanceScore that  *)
(* is nan is a property the reranker's answer left out (undefined).        *)
(*                                                                         *)
(* Specifications.  Spec is one invocation of POST with every input;       *)
(* FairSpec is the same handler under weak fairness of its steps, with     *)
(* short reranker lists; ConcurrentSpec is two invocations interleaving    *)
(* their persistence steps.                                                *)
(***************************************************************************)
EXTENDS Integers, Sequences, FiniteSets, TLC

\* ------------------------------------------------------------------ bounds
\* number of chunks in the documents table
NumChunks == 13
\* longest list the reranker model returns
MaxRankings == 4
\* longest list the reranker model returns in the termination check
FairMaxRankings == 1

\* ------------------------------------------------------- program constants
\* RRF damping constant of the combined CTE
RRF_K == 60
\* LIMIT of the vector_search and fts_search CTEs
SignalLimit == 20
\* limit argument the route passes to hybridSearch
PoolLimit == 10
\* topK argument the route passes to rerankDocuments, and its fallback slice
TopK == 3

\* ----------------------------------------------------------------- numbers
Num(k) == [nan |-> FALSE, n |-> k, d |-> 1]

NaN == [nan |-> TRUE, n |-> 0, d |-> 1]

Abs(k) == IF k < 0 THEN 0 - k ELSE k

RECURSIVE GCD(_, _)
GCD(a, b) == IF b = 0 THEN a ELSE GCD(b, a % b)

\* a / b in lowest terms
Reduce(a, b) ==
    LET g == GCD(Abs(a), b) IN [nan |-> FALSE, n |-> a \div g, d |-> b \div g]

NumAdd(x, y) ==
    IF x.nan \/ y.nan THEN NaN
    ELSE LET g == GCD(x.d, y.d)
         IN  Reduce(x.n * (y.d \div g) + y.n * (x.d \div g), (x.d \div g) * y.d)

NumMulInt(x, k) == IF x.nan THEN NaN ELSE Reduce(x.n * k, x.d)


\* JavaScript comparisons: any comparison with NaN is false
NumLT(x, y) == ~x.nan /\ ~y.nan /\ x.n * y.d < y.n * x.d

NumLE(x, y) == ~x.nan /\ ~y.nan /\ x.n * y.d <= y.n * x.d

NumEq(x, y) == ~x.nan /\ ~y.nan /\ x.n * y.d = y.n * x.d

NumIsInteger(x) == ~x.nan /\ x.n % x.d = 0

\* Math.min(a, b): NaN if either argument is NaN
MathMin(x, y) == IF x.nan \/ y.nan THEN NaN ELSE IF NumLT(y, x) THEN y ELSE x

\* ------------------------------------------------------------------- users
Users == {"u1", "u2"}

NoUser == "none"

\* query texts a client sends; "" stands for a missing, empty or non-string query
Queries == {"q1", "q2"}

ChunkIds == 1 .. NumChunks

\* the rows of the documents table: the last two chunks belong to u2, one of
\* u1's chunks has no embedding
InitialDocuments ==
    [id \in ChunkIds |->
        [id |-> id,
         user_id |-> IF id > NumChunks - 2 THEN "u2" ELSE "u1",
         hasEmbedding |-> id # 3]]

\* embedding <=> queryVector, as an integer key per query text (smaller = closer)
Distance(q, id) == IF q = "q1" THEN (id * 5) % 7 ELSE NumChunks - id

\* to_tsvector(content) @@ plainto_tsquery(query)
TsMatch(q, id) == q = "q1" /\ id % 2 = 1

\* ts_rank(to_tsvector(content), plainto_tsquery(query))
TsRank(q, id) == id % 4

\* the metadata column of a chunk: upload stores chunkType "visual" or "text"
Metadata(id) == [chunkType |-> IF id % 4 = 0 THEN "visual" ELSE "text"]

\* ------------------------------------------------------------ hybridSearch
\* the optional documentIds argument: undefined, or an array of ids
NoDocumentIds == [present |-> FALSE, ids |-> <<>>]

SomeDocumentIds(ids) == [present |-> TRUE, ids |-> ids]

SeqRange(s) == {s[i] : i \in 1 .. Len(s)}

Take(s, k) == IF Len(s) <= k THEN s ELSE SubSeq(s, 1, k)

\* rows with equal sort keys come out in the executor's order, which SQL
\* leaves open: ascending or descending id
TieBefore(a, b, ro) == IF ro = "asc" THEN a < b ELSE a > b

\* ORDER BY key ASC over the ids of S, key given as a function of the id
RECURSIVE OrderBy(_, _, _)
OrderBy(S, key, ro) ==
    IF S = {} THEN <<>>
    ELSE LET first == CHOOSE a \in S : \A b \in S \ {a} :
                          key[a] < key[b] \/ (key[a] = key[b] /\ TieBefore(a, b, ro))
         IN <<first>> \o OrderBy(S \ {first}, key, ro)

\* documentIds && documentIds.length > 0
HasDocumentFilter(documentIds) == documentIds.present /\ Len(documentIds.ids) > 0

\* AND id = ANY(documentIds::int[]), present only in the filtered statement
IdFilter(documentIds, id) ==
    HasDocumentFilter(documentIds) => id \in SeqRange(documentIds.ids)

\* WHERE clause of the vector_search CTE
VectorWhere(docs, userId, documentIds, id) ==
    /\ docs[id].hasEmbedding
    /\ docs[id].user_id = userId
    /\ IdFilter(documentIds, id)

\* mutant of FtsWhere: the id filter is left out of the fts_search CTE
FtsWhereUnfiltered(docs, q, userId, documentIds, id) ==
    /\ docs[id].user_id = userId
    /\ TsMatch(q, id)

\* WHERE clause of the fts_search CTE
FtsWhere(docs, q, userId, documentIds, id) ==
    /\ docs[id].user_id = userId
    /\ TsMatch(q, id)
    /\ IdFilter(documentIds, id)

\* vector_search CTE: ids in ROW_NUMBER order, rank = position, LIMIT 20
VectorSearch(docs, q, userId, documentIds, ro) ==
    Take(OrderBy({id \in DOMAIN docs : VectorWhere(docs, userId, documentIds, id)},
                 [id \in DOMAIN docs |-> Distance(q, id)], ro),
         SignalLimit)

\* fts_search CTE: ids in ROW_NUMBER order (ts_rank DESC), rank = position, LIMIT 20
FtsSearch(docs, q, userId, documentIds, ro) ==
    Take(OrderBy({id \in DOMAIN docs : FtsWhere(docs, q, userId, documentIds, id)},
                 [id \in DOMAIN docs |-> 0 - TsRank(q, id)], ro),
         SignalLimit)

\* the rank of id in a ranked list, 0 when the list has no row for it (NULL)
RankIn(list, id) ==
    IF id \in SeqRange(list) THEN CHOOSE i \in 1 .. Len(list) : list[i] = id ELSE 0

\* COALESCE(1.0 / (60 + rank), 0.0)
RrfTerm(rank) == IF rank = 0 THEN Num(0) ELSE Reduce(1, RRF_K + rank)

\* score column of the combined CTE
RrfScore(vrank, frank) == NumAdd(RrfTerm(vrank), RrfTerm(frank))

\* mutant of JoinIds: an inner join instead of the full outer join
JoinIdsInner(v, f) == SeqRange(v) \cap SeqRange(f)

\* ids produced by vector_search v FULL OUTER JOIN fts_search f ON v.id = f.id
JoinIds(v, f) == SeqRange(v) \cup SeqRange(f)

\* combined CTE: one row per joined id
Combined(v, f) ==
    {[id |-> id, score |-> RrfScore(RankIn(v, id), RankIn(f, id))] : id \in JoinIds(v, f)}

\* ORDER BY score DESC over the combined rows
RECURSIVE OrderByScoreDesc(_, _)
OrderByScoreDesc(rows, ro) ==
    IF rows = {} THEN <<>>
    ELSE LET first == CHOOSE a \in rows : \A b \in rows \ {a} :
                          \/ NumLT(b.score, a.score)
                          \/ (NumEq(a.score, b.score) /\ TieBefore(a.id, b.id, ro))
         IN <<first>> \o OrderByScoreDesc(rows \ {first}, ro)

\* SELECT ... FROM combined LIMIT limit, the ORDER BY left out: the rows come
\* in the executor's order
FinalSelectUnordered(rows, limit, ro) ==
    LET ids == OrderBy({x.id : x \in rows}, [i \in {x.id : x \in rows} |-> 0], ro)
    IN  Take([k \in 1 .. Len(ids) |-> CHOOSE x \in rows : x.id = ids[k]], limit)

\* SELECT id, content, metadata, score FROM combined ORDER BY score DESC LIMIT limit
FinalSelect(rows, limit, ro) == Take(OrderByScoreDesc(rows, ro), limit)

\* hybridSearch(query, embedding, userId, limit, documentIds)
hybridSearch(docs, q, userId, limit, documentIds, ro) ==
    FinalSelect(Combined(VectorSearch(docs, q, userId, documentIds, ro),
                         FtsSearch(docs, q, userId, documentIds, ro)),
                limit, ro)

\* ---------------------------------------------------- reranker (LLMService)
\* A JSON value as far as the reranker adapter looks at it: t is "invalid"
\* (text JSON.parse rejects), "object", "number", "null" or "array"; items are
\* the elements of an array, each {index, relevanceScore}.
JsonInvalid == [t |-> "invalid", items |-> <<>>]

JsonNonList(t) == [t |-> t, items |-> <<>>]

JsonArray(items) == [t |-> "array", items |-> items]

\* the rankings a reranker model may put in its answer
RankingEntries ==
    { [index |-> Num(1), relevanceScore |-> Num(95)],
      [index |-> Num(2), relevanceScore |-> Num(150)],
      [index |-> Num(3), relevanceScore |-> Num(0 - 5)],
      [index |-> Num(2), relevanceScore |-> NaN],
      [index |-> Num(0), relevanceScore |-> Num(50)],
      [index |-> [nan |-> FALSE, n |-> 3, d |-> 2], relevanceScore |-> Num(80)] }

RankingLists == UNION {[1 .. n -> RankingEntries] : n \in 0 .. MaxRankings}

\* the text of the model's answer: a JSON payload, bare or inside a code fence
NonListPayloads ==
    {JsonInvalid, JsonNonList("object"), JsonNonList("number"), JsonNonList("null")}

ResponseTexts ==
    {[fence |-> "none", payload |-> j] :
        j \in NonListPayloads \cup {JsonArray(l) : l \in RankingLists}}
    \cup {[fence |-> "json", payload |-> j] :
        j \in NonListPayloads \cup {JsonArray(l) : l \in [1 .. 1 -> RankingEntries]}}

\* AIResponseParser.extractJSON: strip the fence, JSON.parse
extractJSON(responseText) ==
    LET jsonText == responseText.payload
    IN  [threw |-> jsonText.t = "invalid", value |-> jsonText]

\* AIResponseParser.safeParseJSON
safeParseJSON(responseText, fallback) ==
    LET parsed == extractJSON(responseText)
    IN  IF parsed.threw THEN fallback ELSE parsed.value

\* documents.map((_, idx) => ({index: idx, relevanceScore: Math.min(score * 100, 100)}))
RECURSIVE FallbackEntries(_, _)
FallbackEntries(documents, k) ==
    IF k = 0 THEN <<>>
    ELSE Append(FallbackEntries(documents, k - 1),
                [index |-> Num(k - 1),
                 relevanceScore |-> MathMin(NumMulInt(documents[k].score, 100), Num(100))])

\* the fallback constant of LLMService.rerankDocuments
RerankFallback(documents, topK) ==
    JsonArray(Take(FallbackEntries(documents, Len(documents)), topK))

\* r => ({index: r.index - 1, relevanceScore: r.relevanceScore})
ToZeroBased(r) ==
    [index |-> NumAdd(r.index, Num(0 - 1)), relevanceScore |-> r.relevanceScore]

\* r => r.index >= 0 && r.index < documents.length
IndexInRange(r, n) == NumLE(Num(0), r.index) /\ NumLT(r.index, Num(n))

RECURSIVE FilterInRange(_, _)
FilterInRange(rs, n) ==
    IF rs = <<>> THEN <<>>
    ELSE (IF IndexInRange(rs[1], n) THEN <<rs[1]>> ELSE <<>>) \o FilterInRange(Tail(rs), n)

\* rankings.map(...).filter(...).slice(0, topK)
ValidateRankings(items, n, topK) ==
    Take(FilterInRange([i \in 1 .. Len(items) |-> ToZeroBased(items[i])], n), topK)

\* LLMService.rerankDocuments, given the outcome of the model call:
\* llm.threw when generateContent throws, llm.text otherwise
rerankDocuments(llm, documents, topK) ==
    IF llm.threw THEN [threw |-> TRUE, value |-> <<>>]
    ELSE LET rankings == safeParseJSON(llm.text, RerankFallback(documents, topK))
         IN  IF rankings.t # "array"
             THEN [threw |-> TRUE, value |-> <<>>]
             ELSE [threw |-> FALSE,
                   value |-> ValidateRankings(rankings.items, Len(documents), topK)]

\* --------------------------------------------------------------- the route
\* candidateDocs[r.index]; undefined for an index that is no array position
UndefinedDoc == [id |-> 0, score |-> NaN]

DocAt(candidateDocs, index) ==
    IF NumIsInteger(index) /\ index.n \div index.d + 1 \in 1 .. Len(candidateDocs)
    THEN candidateDocs[index.n \div index.d + 1]
    ELSE UndefinedDoc

\* reranked.map(r => ({...candidateDocs[r.index], relevanceScore: r.relevanceScore}))
MapReranked(candidateDocs, reranked) ==
    [i \in 1 .. Len(reranked) |->
        [id |-> DocAt(candidateDocs, reranked[i].index).id,
         score |-> DocAt(candidateDocs, reranked[i].index).score,
         relevanceScore |-> reranked[i].relevanceScore]]

\* candidateDocs.slice(0, 3).map(doc => ({...doc, relevanceScore: Math.min(doc.score * 100, 100)}))
RouteFallback(candidateDocs) ==
    LET top == Take(candidateDocs, TopK)
    IN  [i \in 1 .. Len(top) |->
            [id |-> top[i].id,
             score |-> top[i].score,
             relevanceScore |-> MathMin(NumMulInt(top[i].score, 100), Num(100))]]

\* topDocs of the route, from the reranker's result
SelectTopDocs(candidateDocs, reranked) ==
    IF Len(MapReranked(candidateDocs, reranked)) = 0
    THEN RouteFallback(candidateDocs)
    ELSE MapReranked(candidateDocs, reranked)

\* The sum and the average are floating-point operations in the code; they are
\* computed here in fixed point, in units of 1/10000 (exact for integers).
ToFixed(x) == (x.n * 10000) \div x.d

\* topDocs.reduce((sum, doc) => sum + doc.relevanceScore, 0), in fixed point;
\* the sum is NaN as soon as one relevanceScore is not a number
RECURSIVE SumRelevance(_)
SumRelevance(docs) ==
    IF docs = <<>> THEN 0
    ELSE SumRelevance(SubSeq(docs, 1, Len(docs) - 1)) + ToFixed(docs[Len(docs)].relevanceScore)

AnyRelevanceNaN(docs) == \E i \in 1 .. Len(docs) : docs[i].relevanceScore.nan

\* Math.floor(sum / count) in place of Math.round
MathFloor(sum, count) == sum \div (count * 10000)

\* Math.round(sum / count): the nearest integer, halves rounded up
MathRound(sum, count) == (2 * sum + count * 10000) \div (2 * count * 10000)

\* confidenceScore = Math.round(avgRelevance)
ConfidenceScore(topDocs) ==
    IF Len(topDocs) > 0
    THEN IF AnyRelevanceNaN(topDocs) THEN NaN
         ELSE Num(MathRound(SumRelevance(topDocs), Len(topDocs)))
    ELSE Num(0)

\* sources of the response
Sources(topDocs) ==
    [i \in 1 .. Len(topDocs) |->
        [text |-> topDocs[i].id,
         score |-> topDocs[i].score,
         relevanceScore |-> topDocs[i].relevanceScore,
         metadata |-> Metadata(topDocs[i].id),
         isVisual |-> Metadata(topDocs[i].id).chunkType = "visual"]]

\* isSourceDocument(obj): the five keys are in obj; a JavaScript object is a
\* record and its keys are the record's fields
isSourceDocument(obj) ==
    {"text", "score", "relevanceScore", "metadata", "isVisual"} \subseteq DOMAIN obj

\* JSON.parse(JSON.stringify(sources)): a key whose value is undefined is
\* left out of the serialised object
sourcesToJsonViaStringify(sources) ==
    [i \in 1 .. Len(sources) |->
        LET obj == sources[i]
            kept == DOMAIN obj \ {k \in {"score", "relevanceScore"} : obj[k].nan}
        IN  [k \in kept |-> obj[k]]]

\* sourcesToJson(sources): the list itself, cast to a JSON value
sourcesToJson(sources) == sources

\* sourcesFromJson(json): the items of the array that are source documents
sourcesFromJson(json) == SelectSeq(json, isSourceDocument)

\* validateDocumentOwnership(ids, userId): the ids that are rows of userId,
\* as the route's handling of its result implies (route.ts, lines 41-55)
RECURSIVE validateDocumentOwnership(_, _, _)
validateDocumentOwnership(docs, ids, userId) ==
    IF ids = <<>> THEN <<>>
    ELSE (IF ids[1] \in DOMAIN docs /\ docs[ids[1]].user_id = userId
          THEN <<ids[1]>> ELSE <<>>)
         \o validateDocumentOwnership(docs, Tail(ids), userId)

\* ------------------------------------------------------------------- state
\* requests in flight
Req == {1, 2}

VARIABLES
    documents,      \* the documents table: chunk id -> row
    rowOrder,       \* the executor's order among rows with equal sort keys
    chatSessions,   \* the chat_sessions table: set of [id, userId]
    chatMessages,   \* the chat_messages table, in insertion order
    started,        \* the requests that arrive in this run
    rq              \* per request: position in POST and its local variables

vars == <<documents, rowOrder, chatSessions, chatMessages, started, rq>>

\* selectedDocumentIds of a request body
SelUndefined == [kind |-> "undefined", ids |-> <<>>]

SelNotArray == [kind |-> "notArray", ids |-> <<>>]

SelNotIntegers == [kind |-> "notIntegers", ids |-> <<>>]

SelArray(ids) == [kind |-> "array", ids |-> ids]

Selections ==
    {SelUndefined, SelNotArray, SelNotIntegers}
    \cup {SelArray(ids) : ids \in {<<>>, <<1>>, <<3>>, <<1, NumChunks>>}}

\* sessionId of a request body; 0 stands for an absent (falsy) sessionId
SessionIdInputs == {0, 2}

\* query of a request body; "" stands for a missing, empty or non-string query
Bodies ==
    [query : Queries \cup {""}, sessionId : SessionIdInputs, selectedDocumentIds : Selections]

NoResponse ==
    [status |-> 0, kind |-> "none", failedAt |-> "none", answered |-> FALSE,
     sources |-> <<>>, confidenceScore |-> Num(0), sessionId |-> 0]

\* ApiResponseBuilder.unauthorized / badRequest, ErrorHandler.handleRouteError
ErrorResponse(status, kind, stage) ==
    [NoResponse EXCEPT !.status = status, !.kind = kind, !.failedAt = stage]

\* the success response of the empty short-circuit
EmptyResponse ==
    [NoResponse EXCEPT !.status = 200, !.kind = "empty", !.answered = TRUE]

NoLlm == [threw |-> FALSE, text |-> [fence |-> "none", payload |-> JsonNonList("unset")]]

IdleRequest ==
    [pc |-> "idle",
     userId |-> NoUser,
     body |-> [query |-> "", sessionId |-> 0, selectedDocumentIds |-> SelUndefined],
     validatedDocumentIds |-> NoDocumentIds,
     vectorList |-> <<>>,
     ftsList |-> <<>>,
     combined |-> {},
     candidateDocs |-> <<>>,
     llm |-> NoLlm,
     topDocs |-> <<>>,
     confidenceScore |-> Num(0),
     sources |-> <<>>,
     currentSessionId |-> 0,
     calls |-> <<>>,
     response |-> NoResponse]

InitialSessions == {[id |-> 1, userId |-> "u1"], [id |-> 2, userId |-> "u2"]}

Init ==
    /\ documents = InitialDocuments
    /\ rowOrder \in {"asc", "desc"}
    /\ chatSessions = InitialSessions
    /\ chatMessages = <<>>
    /\ started = {1}
    /\ rq = [r \in Req |-> IdleRequest]

\* the route returns: the response is fixed and POST is over
Respond(r, cur, resp) ==
    rq' = [rq EXCEPT ![r] = [cur EXCEPT !.pc = "done", !.response = resp]]

\* a catch block that answers with the canned success response
ThrowAnswered(r, cur, stage) ==
    Respond(r, cur, [EmptyResponse EXCEPT !.failedAt = stage])

\* the catch block of POST: an exception thrown at stage becomes a 500
Throw(r, cur, stage) == Respond(r, cur, ErrorResponse(500, "error", stage))

Called(cur, name) == [cur EXCEPT !.calls = Append(@, name)]

\* an authentication check that lets every request through
isAuthSuccessAlways(uid) == TRUE

\* requireAuth / isAuthSuccess: getOrCreateUser returned a user id
isAuthSuccess(uid) == uid # NoUser

\* route.ts 12-16: requireAuth
Authenticate(r) ==
    /\ r \in started
    /\ rq[r].pc = "idle"
    /\ \E uid \in Users \cup {NoUser} :
          IF ~isAuthSuccess(uid)
          THEN Respond(r, rq[r], ErrorResponse(401, "unauthorized", "none"))
          ELSE rq' = [rq EXCEPT ![r].pc = "authenticated", ![r].userId = uid]
    /\ UNCHANGED <<documents, rowOrder, chatSessions, chatMessages, started>>

\* route.ts 18-57: read the body, validate query and selectedDocumentIds;
\* request.json() throws when the body is not JSON, and the destructuring at
\* line 19 throws when it is null
ValidateRequest(r) ==
    /\ rq[r].pc = "authenticated"
    /\ \/ Throw(r, rq[r], "request.json")
       \/ \E b \in Bodies :
             LET cur == [rq[r] EXCEPT !.body = b]
                 sel == b.selectedDocumentIds
                 owned == validateDocumentOwnership(documents, sel.ids, cur.userId)
             IN  IF b.query = ""
                 THEN Respond(r, cur, ErrorResponse(400, "badRequest", "query"))
                 ELSE IF sel.kind = "undefined"
                 THEN rq' = [rq EXCEPT ![r] = [cur EXCEPT !.pc = "validated"]]
                 ELSE IF sel.kind \in {"notArray", "notIntegers"}
                 THEN Respond(r, cur, ErrorResponse(400, "badRequest", "selectedDocumentIds"))
                 ELSE IF Len(sel.ids) = 0
                 THEN rq' = [rq EXCEPT ![r] = [cur EXCEPT !.pc = "validated"]]
                 ELSE \/ Throw(r, Called(cur, "validateDocumentOwnership"), "validateDocumentOwnership")
                      \/ IF Len(owned) = 0
                         THEN Respond(r, Called(cur, "validateDocumentOwnership"),
                                      ErrorResponse(400, "badRequest", "noValidDocuments"))
                         ELSE rq' = [rq EXCEPT ![r] =
                                       [Called(cur, "validateDocumentOwnership") EXCEPT
                                           !.pc = "validated",
                                           !.validatedDocumentIds = SomeDocumentIds(owned)]]
    /\ UNCHANGED <<documents, rowOrder, chatSessions, chatMessages, started>>

\* route.ts 60: initializeDatabase
InitializeDatabase(r) ==
    /\ rq[r].pc = "validated"
    /\ \/ Throw(r, Called(rq[r], "initializeDatabase"), "initializeDatabase")
       \/ rq' = [rq EXCEPT ![r] = [Called(rq[r], "initializeDatabase") EXCEPT !.pc = "dbReady"]]
    /\ UNCHANGED <<documents, rowOrder, chatSessions, chatMessages, started>>

\* route.ts 63: generateEmbedding
GenerateEmbedding(r) ==
    /\ rq[r].pc = "dbReady"
    /\ \/ Throw(r, Called(rq[r], "generateEmbedding"), "generateEmbedding")
       \/ rq' = [rq EXCEPT ![r] = [Called(rq[r], "generateEmbedding") EXCEPT !.pc = "embedded"]]
    /\ UNCHANGED <<documents, rowOrder, chatSessions, chatMessages, started>>

\* mutant of IsEmptyResult: the empty short-circuit is never taken
IsEmptyResultNever(found) == FALSE

\* route.ts 75: candidateDocs.length === 0
IsEmptyResult(found) == Len(found) = 0

\* route.ts 67-81: hybridSearch and the empty short-circuit
Retrieve(r) ==
    /\ rq[r].pc = "embedded"
    /\ LET cur == Called(rq[r], "hybridSearch")
           v == VectorSearch(documents, cur.body.query, cur.userId,
                             cur.validatedDocumentIds, rowOrder)
           f == FtsSearch(documents, cur.body.query, cur.userId,
                          cur.validatedDocumentIds, rowOrder)
           found == hybridSearch(documents, cur.body.query, cur.userId, PoolLimit,
                                 cur.validatedDocumentIds, rowOrder)
           got == [cur EXCEPT !.vectorList = v, !.ftsList = f, !.combined = Combined(v, f),
                              !.candidateDocs = found]
       IN  \/ Throw(r, cur, "hybridSearch")
           \/ IF IsEmptyResult(found)
              THEN Respond(r, got, EmptyResponse)
              ELSE rq' = [rq EXCEPT ![r] = [got EXCEPT !.pc = "retrieved"]]
    /\ UNCHANGED <<documents, rowOrder, chatSessions, chatMessages, started>>

\* what the reranker model call may do: throw, or answer with some text
LlmOutcomes ==
    {[threw |-> TRUE, text |-> NoLlm.text]}
    \cup {[threw |-> FALSE, text |-> t] : t \in ResponseTexts}

\* a rerank stage that, when the reranker throws, goes back and repeats the
\* retrieval
RerankRetrying(r, outcomes) ==
    /\ rq[r].pc = "retrieved"
    /\ \E llm \in outcomes :
          LET cur == [Called(rq[r], "rerankDocuments") EXCEPT !.llm = llm]
              reranked == rerankDocuments(llm, cur.candidateDocs, TopK)
          IN  IF reranked.threw
              THEN rq' = [rq EXCEPT ![r] =
                            [rq[r] EXCEPT !.pc = "embedded",
                                          !.calls = SubSeq(@, 1, Len(@) - 1)]]
              ELSE rq' = [rq EXCEPT ![r] =
                            [cur EXCEPT !.pc = "reranked",
                                        !.topDocs = SelectTopDocs(cur.candidateDocs, reranked.value)]]
    /\ UNCHANGED <<documents, rowOrder, chatSessions, chatMessages, started>>

\* route.ts 84-102: rerankDocuments and the fallback to the original
\* candidates, for a reranker model whose call ends in one of outcomes
RerankWith(r, outcomes) ==
    /\ rq[r].pc = "retrieved"
    /\ \E llm \in outcomes :
          LET cur == [Called(rq[r], "rerankDocuments") EXCEPT !.llm = llm]
              reranked == rerankDocuments(llm, cur.candidateDocs, TopK)
          IN  IF reranked.threw
              THEN Throw(r, cur, "rerankDocuments")
              ELSE rq' = [rq EXCEPT ![r] =
                            [cur EXCEPT !.pc = "reranked",
                                        !.topDocs = SelectTopDocs(cur.candidateDocs, reranked.value)]]
    /\ UNCHANGED <<documents, rowOrder, chatSessions, chatMessages, started>>

Rerank(r) == RerankWith(r, LlmOutcomes)

\* route.ts 105-123: generateResponse, confidenceScore, sources
Generate(r) ==
    /\ rq[r].pc = "reranked"
    /\ LET cur == [Called(rq[r], "generateResponse") EXCEPT !.llm = NoLlm]
       IN  \/ Throw(r, cur, "generateResponse")
           \/ /\ \A i \in 1 .. Len(cur.topDocs) : cur.topDocs[i].id # 0
              /\ rq' = [rq EXCEPT ![r] =
                          [cur EXCEPT !.pc = "generated",
                                      !.confidenceScore = ConfidenceScore(cur.topDocs),
                                      !.sources = Sources(cur.topDocs)]]
    /\ UNCHANGED <<documents, rowOrder, chatSessions, chatMessages, started>>

\* an id that a stored session already has
NextSessionIdReused == Cardinality(chatSessions)

\* the id the store gives a created session
NextSessionId == 1 + Cardinality(chatSessions)

\* route.ts 126-140: use the given session, or create one
EnsureSession(r) ==
    /\ rq[r].pc = "generated"
    /\ IF rq[r].body.sessionId # 0
       THEN /\ rq' = [rq EXCEPT ![r].pc = "sessionReady",
                                ![r].currentSessionId = rq[r].body.sessionId]
            /\ UNCHANGED chatSessions
       ELSE \/ /\ Throw(r, Called(rq[r], "chatSession.create"), "chatSession.create")
               /\ UNCHANGED chatSessions
            \/ /\ chatSessions' = chatSessions
                      \cup {[id |-> NextSessionId, userId |-> rq[r].userId]}
               /\ rq' = [rq EXCEPT ![r] =
                           [Called(rq[r], "chatSession.create") EXCEPT
                               !.pc = "sessionReady", !.currentSessionId = NextSessionId]]
    /\ UNCHANGED <<documents, rowOrder, chatMessages, started>>

SessionExists(id) == \E s \in chatSessions : s.id = id

\* route.ts 143-150: save the user's question
SaveUserMessage(r) ==
    /\ rq[r].pc = "sessionReady"
    /\ LET cur == Called(rq[r], "chatMessage.create:user")
       IN  \/ /\ Throw(r, cur, "chatMessage.create:user")
              /\ UNCHANGED chatMessages
           \/ /\ SessionExists(cur.currentSessionId)
              /\ chatMessages' = Append(chatMessages,
                     [sessionId |-> cur.currentSessionId, role |-> "user",
                      request |-> r, sources |-> <<>>])
              /\ rq' = [rq EXCEPT ![r] = [cur EXCEPT !.pc = "userSaved"]]
    /\ UNCHANGED <<documents, rowOrder, chatSessions, started>>

\* route.ts 153-168: save the assistant's answer and return the success response
SaveAssistantMessage(r) ==
    /\ rq[r].pc = "userSaved"
    /\ LET cur == Called(rq[r], "chatMessage.create:assistant")
       IN  \/ /\ Throw(r, cur, "chatMessage.create:assistant")
              /\ UNCHANGED chatMessages
           \/ /\ SessionExists(cur.currentSessionId)
              /\ chatMessages' = Append(chatMessages,
                     [sessionId |-> cur.currentSessionId, role |-> "assistant",
                      request |-> r, sources |-> sourcesToJson(cur.sources)])
              /\ Respond(r, cur,
                     [NoResponse EXCEPT !.status = 200, !.kind = "answer", !.answered = TRUE,
                                        !.sources = cur.sources,
                                        !.confidenceScore = cur.confidenceScore,
                                        !.sessionId = cur.currentSessionId])
    /\ UNCHANGED <<documents, rowOrder, chatSessions, started>>

Next ==
    \E r \in Req :
        \/ Authenticate(r)
        \/ ValidateRequest(r)
        \/ InitializeDatabase(r)
        \/ GenerateEmbedding(r)
        \/ Retrieve(r)
        \/ Rerank(r)
        \/ Generate(r)
        \/ EnsureSession(r)
        \/ SaveUserMessage(r)
        \/ SaveAssistantMessage(r)

Spec == Init /\ [][Next]_vars

\* the reranker outcomes of the termination check: a throw, or a text whose
\* list has at most FairMaxRankings entries
FairLlmOutcomes ==
    {[threw |-> TRUE, text |-> NoLlm.text]}
    \cup {[threw |-> FALSE, text |-> [fence |-> "none", payload |-> j]] :
            j \in NonListPayloads
                  \cup {JsonArray(l) : l \in UNION {[1 .. n -> RankingEntries] :
                                                       n \in 0 .. FairMaxRankings}}}
    \cup {[threw |-> FALSE, text |-> [fence |-> "json", payload |-> j]] :
            j \in NonListPayloads \cup {JsonArray(l) : l \in [1 .. 1 -> RankingEntries]}}

FairNext ==
    \E r \in Req :
        \/ Authenticate(r)
        \/ ValidateRequest(r)
        \/ InitializeDatabase(r)
        \/ GenerateEmbedding(r)
        \/ Retrieve(r)
        \/ RerankWith(r, FairLlmOutcomes)
        \/ Generate(r)
        \/ EnsureSession(r)
        \/ SaveUserMessage(r)
        \/ SaveAssistantMessage(r)

\* every awaited call eventually returns or throws: a step of the handler
\* that can be taken is eventually taken.  The reranker call is pending
\* exactly while its throwing step can be taken, so weak fairness of that
\* step says that the call does not stay pending for ever.
Fairness ==
    \A r \in Req :
        /\ WF_vars(Authenticate(r))
        /\ WF_vars(ValidateRequest(r))
        /\ WF_vars(InitializeDatabase(r))
        /\ WF_vars(GenerateEmbedding(r))
        /\ WF_vars(Retrieve(r))
        /\ WF_vars(RerankWith(r, {[threw |-> TRUE, text |-> NoLlm.text]}))
        /\ WF_vars(Generate(r))
        /\ WF_vars(EnsureSession(r))
        /\ WF_vars(SaveUserMessage(r))
        /\ WF_vars(SaveAssistantMessage(r))

FairSpec == Init /\ [][FairNext]_vars /\ Fairness

\* ------------------------------------------------- two concurrent requests
\* a request of userId whose answer has been generated: it searched without
\* an allow-list, the reranker answered with an empty list, and the handler
\* is about to persist into the session named by sessionId (0: a new one)
GeneratedRequest(userId, q, sessionId, ro) ==
    LET v == VectorSearch(InitialDocuments, q, userId, NoDocumentIds, ro)
        f == FtsSearch(InitialDocuments, q, userId, NoDocumentIds, ro)
        found == hybridSearch(InitialDocuments, q, userId, PoolLimit, NoDocumentIds, ro)
        top == SelectTopDocs(found, <<>>)
    IN  [IdleRequest EXCEPT
            !.pc = "generated",
            !.userId = userId,
            !.body = [query |-> q, sessionId |-> sessionId,
                      selectedDocumentIds |-> SelUndefined],
            !.vectorList = v, !.ftsList = f, !.combined = Combined(v, f),
            !.candidateDocs = found,
            !.topDocs = top,
            !.confidenceScore = ConfidenceScore(top),
            !.sources = Sources(top),
            !.calls = <<"initializeDatabase", "generateEmbedding", "hybridSearch",
                        "rerankDocuments", "generateResponse">>]

\* both requests are in flight and have reached the persistence part of POST
ConcurrentInit ==
    /\ documents = InitialDocuments
    /\ rowOrder \in {"asc", "desc"}
    /\ chatSessions = InitialSessions
    /\ chatMessages = <<>>
    /\ started = Req
    /\ \E u1, u2 \in Users : \E s1, s2 \in SessionIdInputs :
          rq = [r \in Req |-> IF r = 1 THEN GeneratedRequest(u1, "q1", s1, rowOrder)
                                       ELSE GeneratedRequest(u2, "q1", s2, rowOrder)]

\* route.ts 126-168 of either request, interleaved at the awaits
ConcurrentNext ==
    \E r \in Req :
        \/ EnsureSession(r)
        \/ SaveUserMessage(r)
        \/ SaveAssistantMessage(r)

ConcurrentSpec == ConcurrentInit /\ [][ConcurrentNext]_vars

\* ================================================================== claims
RankedIds(r) == SeqRange(rq[r].vectorList) \cup SeqRange(rq[r].ftsList)

CandidateIds(r) == {rq[r].candidateDocs[i].id : i \in 1 .. Len(rq[r].candidateDocs)}

InScope(r, id) ==
    /\ documents[id].user_id = rq[r].userId
    /\ (~rq[r].validatedDocumentIds.present
        \/ id \in SeqRange(rq[r].validatedDocumentIds.ids))

\* C1: every row of the vector-ranked list and of the lexical-ranked list, and
\* every returned candidate, belongs to the caller and, when an allow-list was
\* passed, is in the allow-list: a chunk outside the scope never gets a rank.
C1_ScopedBeforeRanking ==
    \A r \in Req : \A id \in RankedIds(r) \cup CandidateIds(r) : InScope(r, id)

\* C1 witness: a search under an allow-list ranked some chunk while the caller
\* owns chunks outside the allow-list and another user owns chunks too.
C1_Witness ==
    \E r \in Req :
        /\ rq[r].validatedDocumentIds.present
        /\ rq[r].vectorList # <<>>
        /\ rq[r].candidateDocs # <<>>
        /\ \E id \in ChunkIds : documents[id].user_id = rq[r].userId
                                /\ id \notin SeqRange(rq[r].validatedDocumentIds.ids)
        /\ \E id \in ChunkIds : documents[id].user_id # rq[r].userId

\* the fallback selection as the specification states it: the first
\* min(3, poolSize) candidates of the pool, in pool order, each with
\* relevanceScore = min(fusedScore * 100, 100)
IsFallbackSelection(topDocs, pool) ==
    /\ Len(topDocs) = (IF Len(pool) < 3 THEN Len(pool) ELSE 3)
    /\ \A i \in 1 .. Len(topDocs) :
          /\ i <= Len(pool)
          /\ topDocs[i].id = pool[i].id
          /\ IF pool[i].score.n >= pool[i].score.d
             THEN NumEq(topDocs[i].relevanceScore, Num(100))
             ELSE topDocs[i].relevanceScore.n * pool[i].score.d
                      = 100 * pool[i].score.n * topDocs[i].relevanceScore.d
                  /\ ~topDocs[i].relevanceScore.nan

\* C2: when the reranker call itself throws, the request is not answered with
\* an error, and the final result set is the fallback selection of the pool.
C2_RerankThrowRecovered ==
    \A r \in Req :
        rq[r].llm.threw =>
            /\ rq[r].response.kind # "error"
            /\ IsFallbackSelection(rq[r].topDocs, rq[r].candidateDocs)

\* an entry of the reranker's list survives validation when its 1-based index
\* names a position of the pool
EntrySurvives(item, n) ==
    NumIsInteger(item.index) /\ item.index.n \div item.index.d \in 1 .. n

\* the reranker answered, and its answer cannot be parsed or no entry survives
FallbackApplies(r) ==
    /\ "rerankDocuments" \in SeqRange(rq[r].calls)
    /\ ~rq[r].llm.threw
    /\ \/ rq[r].llm.text.payload.t = "invalid"
       \/ /\ rq[r].llm.text.payload.t = "array"
          /\ \A i \in 1 .. Len(rq[r].llm.text.payload.items) :
                ~EntrySurvives(rq[r].llm.text.payload.items[i], Len(rq[r].candidateDocs))

\* C3: whenever the fallback applies (unparsable output, or no entry survives
\* validation), the final result set is exactly the fallback selection.
C3_FallbackSelection ==
    \A r \in Req :
        FallbackApplies(r) =>
            /\ rq[r].pc = "reranked"
            /\ IsFallbackSelection(rq[r].topDocs, rq[r].candidateDocs)

ForeignIdSelected(r) ==
    /\ rq[r].body.selectedDocumentIds.kind = "array"
    /\ \E i \in 1 .. Len(rq[r].body.selectedDocumentIds.ids) :
          documents[rq[r].body.selectedDocumentIds.ids[i]].user_id # rq[r].userId

PipelineCalls ==
    {"initializeDatabase", "generateEmbedding", "hybridSearch", "rerankDocuments",
     "generateResponse", "chatSession.create", "chatMessage.create:user",
     "chatMessage.create:assistant"}

\* C4: a request whose selectedDocumentIds holds an id the requester does not
\* own is rejected as a whole with an error; nothing of the pipeline runs.
C4_ForeignScopeRejected ==
    \A r \in Req :
        (rq[r].pc \notin {"idle", "authenticated"} /\ ForeignIdSelected(r)) =>
            /\ rq[r].pc = "done"
            /\ rq[r].response.kind \in {"badRequest", "error"}
            /\ SeqRange(rq[r].calls) \cap PipelineCalls = {}

\* C5: every relevanceScore of a final result set is a number in [0,100].
C5_RelevanceBounded ==
    \A r \in Req : \A i \in 1 .. Len(rq[r].topDocs) :
        /\ NumLE(Num(0), rq[r].topDocs[i].relevanceScore)
        /\ NumLE(rq[r].topDocs[i].relevanceScore, Num(100))

\* C6: the final result set has at most 3 entries and at most as many entries
\* as the fused pool, which holds at most 10 candidates.
C6_ResultSize ==
    \A r \in Req :
        /\ Len(rq[r].topDocs) <= 3
        /\ Len(rq[r].topDocs) <= Len(rq[r].candidateDocs)
        /\ Len(rq[r].candidateDocs) <= 10

\* hybridSearch returned to request r, and returned no candidate
EmptyPoolReturned(r) ==
    /\ "hybridSearch" \in SeqRange(rq[r].calls)
    /\ rq[r].response.failedAt # "hybridSearch"
    /\ Len(rq[r].candidateDocs) = 0

\* C7: an empty fused pool ends the query at EMPTY: the canned success answer
\* with no sources and confidence 0, and no rerank, generation or persistence.
C7_EmptyShortCircuit ==
    \A r \in Req :
        EmptyPoolReturned(r) =>
            /\ rq[r].pc = "done"
            /\ rq[r].response.kind = "empty"
            /\ rq[r].response.status = 200
            /\ rq[r].response.sources = <<>>
            /\ rq[r].response.confidenceScore = Num(0)
            /\ SeqRange(rq[r].calls) \cap
                   {"rerankDocuments", "generateResponse", "chatSession.create",
                    "chatMessage.create:user", "chatMessage.create:assistant"} = {}
            /\ \A i \in 1 .. Len(chatMessages) : chatMessages[i].request # r

\* C7 witness: a search that returned nothing although the caller owns chunks.
C7_Witness ==
    \E r \in Req :
        /\ EmptyPoolReturned(r)
        /\ rq[r].response.kind = "empty"
        /\ \E id \in ChunkIds : documents[id].user_id = rq[r].userId

Persisted(r, role) ==
    \E i \in 1 .. Len(chatMessages) :
        chatMessages[i].request = r /\ chatMessages[i].role = role

\* C8: once a request is over, its user message is in the session store only
\* if its assistant answer is there too.
C8_PairPersistedTogether ==
    \A r \in Req :
        (rq[r].pc = "done" /\ Persisted(r, "user")) => Persisted(r, "assistant")

\* position of id in a ranked list (1-based), 0 if absent
PositionOf(list, id) ==
    IF \E i \in 1 .. Len(list) : list[i] = id
    THEN CHOOSE i \in 1 .. Len(list) : list[i] = id
    ELSE 0

\* score = 1/(60 + vr) + 1/(60 + fr) with an absent rank (0) contributing 0,
\* stated by cross-multiplication
IsRrfScore(score, vr, fr) ==
    /\ ~score.nan
    /\ IF vr > 0 /\ fr > 0
       THEN score.n * ((60 + vr) * (60 + fr)) = ((60 + fr) + (60 + vr)) * score.d
       ELSE IF vr > 0 THEN score.n * (60 + vr) = score.d
       ELSE IF fr > 0 THEN score.n * (60 + fr) = score.d
       ELSE score.n = 0

\* C9: every chunk id of either ranked list is in the merged set exactly once,
\* with fusedScore = 1/(60 + vectorRank) + 1/(60 + ftsRank), an absent rank
\* contributing 0; the merged set holds no other id.
C9_RrfFullOuterJoin ==
    \A r \in Req :
        /\ \A id \in RankedIds(r) :
              /\ Cardinality({row \in rq[r].combined : row.id = id}) = 1
              /\ \A row \in rq[r].combined :
                    row.id = id =>
                        IsRrfScore(row.score, PositionOf(rq[r].vectorList, id),
                                   PositionOf(rq[r].ftsList, id))
        /\ \A row \in rq[r].combined : row.id \in RankedIds(r)

\* C9 witness: a merge with a chunk ranked by both signals, one ranked by the
\* vector signal only and one ranked by the lexical signal only.
C9_Witness ==
    \E r \in Req :
        /\ \E id \in ChunkIds : PositionOf(rq[r].vectorList, id) > 0
                                /\ PositionOf(rq[r].ftsList, id) > 0
        /\ \E id \in ChunkIds : PositionOf(rq[r].vectorList, id) > 1
                                /\ PositionOf(rq[r].ftsList, id) = 0
        /\ \E id \in ChunkIds : PositionOf(rq[r].vectorList, id) = 0
                                /\ PositionOf(rq[r].ftsList, id) > 0
        /\ Cardinality(rq[r].combined) > 2

\* C10: a reranker answer that parses to something that is not a list is a
\* rerank failure: the fallback selection is used and no error escapes.
C10_NonListIsRerankFailure ==
    \A r \in Req :
        (~rq[r].llm.threw /\ rq[r].llm.text.payload.t \in {"object", "number", "null"}) =>
            /\ rq[r].response.kind # "error"
            /\ rq[r].pc = "reranked"
            /\ IsFallbackSelection(rq[r].topDocs, rq[r].candidateDocs)

\* C11: the final result set never references the same fused-pool position
\* twice: repeated indices of the reranker answer are reduced to their first
\* occurrence, so no chunk is twice in the answer context or the sources.
C11_NoDuplicatePositions ==
    \A r \in Req :
        \A i, j \in 1 .. Len(rq[r].topDocs) :
            (i # j /\ rq[r].topDocs[i].id # UndefinedDoc.id) =>
                rq[r].topDocs[i].id # rq[r].topDocs[j].id

\* positions of the reranker answer whose entry names a candidate of a pool
\* of n, and the k-th of them in answer order
SurvivorPositions(items, n) ==
    {i \in 1 .. Len(items) : EntrySurvives(items[i], n)}

KthSurvivor(items, n, k) ==
    CHOOSE i \in SurvivorPositions(items, n) :
        Cardinality({j \in SurvivorPositions(items, n) : j < i}) = k - 1

\* C12: when the reranker answer parses to a list and at least one entry
\* survives validation, the final result set is exactly the first (at most 3)
\* surviving entries, in answer order, each the named candidate with the
\* model's relevanceScore; the fallback selection is not used, also when
\* fewer than 3 entries survive.
C12_SurvivorsAreTheResult ==
    \A r \in Req :
        LET items == rq[r].llm.text.payload.items
            n == Len(rq[r].candidateDocs)
            count == Cardinality(SurvivorPositions(items, n))
        IN  (/\ "rerankDocuments" \in SeqRange(rq[r].calls)
             /\ ~rq[r].llm.threw
             /\ rq[r].llm.text.payload.t = "array"
             /\ count > 0) =>
                /\ rq[r].pc = "reranked"
                /\ Len(rq[r].topDocs) = (IF count < 3 THEN count ELSE 3)
                /\ \A k \in 1 .. Len(rq[r].topDocs) :
                      k <= count =>
                          LET item == items[KthSurvivor(items, n, k)]
                          IN  /\ rq[r].topDocs[k].id
                                     = rq[r].candidateDocs[item.index.n \div item.index.d].id
                              /\ rq[r].topDocs[k].relevanceScore = item.relevanceScore

\* C13: the confidenceScore of every answered query is a number in [0, 100],
\* and it is 0 when the final result set is empty.
C13_ConfidenceBounded ==
    \A r \in Req :
        rq[r].response.kind \in {"answer", "empty"} =>
            /\ ~rq[r].response.confidenceScore.nan
            /\ NumLE(Num(0), rq[r].response.confidenceScore)
            /\ NumLE(rq[r].response.confidenceScore, Num(100))
            /\ (rq[r].topDocs = <<>> => NumEq(rq[r].response.confidenceScore, Num(0)))

\* the sum of the relevanceScores of a list of sources, in units of 1/10000
RECURSIVE RelevanceTotal(_)
RelevanceTotal(list) ==
    IF list = <<>> THEN 0
    ELSE ToFixed(Head(list).relevanceScore) + RelevanceTotal(Tail(list))

\* c is the integer nearest to total / count, halves going up
IsRoundedMean(c, total, count) ==
    /\ ~c.nan /\ c.d = 1
    /\ (2 * c.n - 1) * count * 10000 <= 2 * total
    /\ 2 * total < (2 * c.n + 1) * count * 10000

C15_FallbackTotal ==
    \A r \in Req :
        "rerankDocuments" \in SeqRange(rq[r].calls) =>
            /\ rq[r].candidateDocs # <<>>
            /\ rq[r].response.failedAt # "rerankDocuments"
            /\ Len(rq[r].topDocs) \in 1 .. 3

\* the stages of retrieval and of answer generation
RetrievalOrGeneration == {"generateEmbedding", "hybridSearch", "generateResponse"}

\* C16: when the query embedding, the hybrid search or the answer generation
\* fails, the caller gets an explicit error response (status 500, no answer)
\* and the query leaves the session store as it was: it created no session
\* and wrote no message.
C16_FailureLeavesStoreUnchanged ==
    \A r \in Req :
        rq[r].response.failedAt \in RetrievalOrGeneration =>
            /\ rq[r].pc = "done"
            /\ rq[r].response.status = 500
            /\ rq[r].response.kind = "error"
            /\ ~rq[r].response.answered
            /\ rq[r].response.sessionId = 0
            /\ "chatSession.create" \notin SeqRange(rq[r].calls)
            /\ \A i \in 1 .. Len(chatMessages) : chatMessages[i].request # r
            /\ (started = {r} => chatSessions = InitialSessions /\ chatMessages = <<>>)

\* C16 witness: answer generation failed for a query that named no session,
\* so one would have been created, after retrieval and reranking succeeded.
C16_Witness ==
    \E r \in Req :
        /\ rq[r].response.failedAt = "generateResponse"
        /\ rq[r].body.sessionId = 0
        /\ rq[r].topDocs # <<>>

\* C17: the fused pool is in descending score order with equal scores in
\* ascending chunk id order, and the rows cut off by the limit come after
\* every returned row in that order: neither the order nor the membership of
\* the pool depends on the row order of the store.
C17_FusionDeterministic ==
    \A r \in Req :
        LET pool == rq[r].candidateDocs
        IN  /\ \A i, j \in 1 .. Len(pool) :
                  i < j => \/ NumLT(pool[j].score, pool[i].score)
                           \/ (NumEq(pool[i].score, pool[j].score)
                               /\ pool[i].id < pool[j].id)
            /\ \A row \in rq[r].combined :
                  row.id \notin CandidateIds(r) =>
                      \A i \in 1 .. Len(pool) :
                          \/ NumLT(row.score, pool[i].score)
                          \/ (NumEq(row.score, pool[i].score) /\ pool[i].id < row.id)

\* C18: an empty array of document ids means "no documents to search": for a
\* query whose selectedDocumentIds is [], hybridSearch called with
\* documentIds = [] returns no rows, and the query retrieves no candidates
\* instead of searching all of the owner's documents.
C18_EmptySelectionSearchesNothing ==
    \A r \in Req :
        (/\ rq[r].body.selectedDocumentIds = SelArray(<<>>)
         /\ "hybridSearch" \in SeqRange(rq[r].calls)
         /\ rq[r].response.failedAt # "hybridSearch") =>
            /\ hybridSearch(documents, rq[r].body.query, rq[r].userId, PoolLimit,
                            SomeDocumentIds(<<>>), rowOrder) = <<>>
            /\ rq[r].vectorList = <<>>
            /\ rq[r].ftsList = <<>>
            /\ rq[r].candidateDocs = <<>>

C20_UnauthenticatedDoesNothing ==
    \A r \in Req :
        /\ (rq[r].pc # "idle" /\ rq[r].userId \notin Users) =>
              /\ rq[r].pc = "done"
              /\ rq[r].response.status = 401
              /\ rq[r].response.kind = "unauthorized"
              /\ ~rq[r].response.answered
              /\ rq[r].calls = <<>>
              /\ rq[r].candidateDocs = <<>>
              /\ \A i \in 1 .. Len(chatMessages) : chatMessages[i].request # r
              /\ (started = {r} => chatSessions = InitialSessions)
        /\ \A id \in RankedIds(r) \cup CandidateIds(r) :
              documents[id].user_id = rq[r].userId
        /\ "chatSession.create" \in SeqRange(rq[r].calls) =>
              \A s \in chatSessions :
                  s.id = rq[r].currentSessionId => s.userId = rq[r].userId

\* C20 witness: an unauthenticated request has been answered
C20_Witness ==
    \E r \in Req :
        /\ rq[r].pc = "done"
        /\ rq[r].userId = NoUser
        /\ rq[r].response.kind = "unauthorized"

\* the persistence calls of a query
PersistenceCalls ==
    {"chatSession.create", "chatMessage.create:user", "chatMessage.create:assistant"}

\* C21: when a persistence call fails after the answer has been computed, the
\* caller still gets the answer, with its sources and confidenceScore, and no
\* error response.
C21_AnswerSurvivesPersistenceFailure ==
    \A r \in Req :
        rq[r].response.failedAt \in PersistenceCalls =>
            /\ rq[r].response.status = 200
            /\ rq[r].response.kind = "answer"
            /\ rq[r].response.answered
            /\ rq[r].response.sources = rq[r].sources
            /\ rq[r].response.confidenceScore = rq[r].confidenceScore

\* the position of a call in the order of the handler's stages
StageRank(name) ==
    CASE name = "validateDocumentOwnership" -> 1
      [] name = "initializeDatabase" -> 2
      [] name = "generateEmbedding" -> 3
      [] name = "hybridSearch" -> 4
      [] name = "rerankDocuments" -> 5
      [] name = "generateResponse" -> 6
      [] name = "chatSession.create" -> 7
      [] name = "chatMessage.create:user" -> 8
      [] name = "chatMessage.create:assistant" -> 9

\* the calls of a query are made in stage order, each at most once, the
\* generator only after the rerank stage and persistence only after a
\* generation that returned
StagesInOrder(r) ==
    LET calls == rq[r].calls
    IN  /\ \A i, j \in 1 .. Len(calls) :
              i < j => StageRank(calls[i]) < StageRank(calls[j])
        /\ "rerankDocuments" \in SeqRange(calls) => "hybridSearch" \in SeqRange(calls)
        /\ "generateResponse" \in SeqRange(calls) =>
              "rerankDocuments" \in SeqRange(calls) /\ rq[r].topDocs # <<>>
        /\ (SeqRange(calls) \cap PersistenceCalls # {}
            \/ \E i \in 1 .. Len(chatMessages) : chatMessages[i].request = r) =>
              /\ "generateResponse" \in SeqRange(calls)
              /\ rq[r].response.failedAt # "generateResponse"

\* C22: within one query the stages happen in order and at most once each:
\* hybrid search before the rerank call, the generator at most once and after
\* the final result set is fixed, the first persistence write after a
\* generation that returned; and the rerank stage always leads on to scoring
\* and generation: it neither returns to retrieval nor ends the query.
C22_StagesInOrder ==
    \A r \in Req :
        /\ StagesInOrder(r)
        /\ "rerankDocuments" \in SeqRange(rq[r].calls) =>
              \/ rq[r].pc = "reranked"
              \/ "generateResponse" \in SeqRange(rq[r].calls)

\* C23: whatever list the reranker answers with, every entry of the final
\* result set is a candidate of the fused pool: entries whose index is not an
\* integer in range are discarded, so building the context and the sources
\* never dereferences a missing candidate.
C23_ResultsReferenceCandidates ==
    \A r \in Req :
        \A i \in 1 .. Len(rq[r].topDocs) :
            /\ rq[r].topDocs[i].id \in CandidateIds(r)
            /\ ~rq[r].topDocs[i].score.nan

\* C24: the candidate list hybridSearch returns is the merged rows sorted by
\* fused score descending and cut to the pool size: at most 10 entries, all
\* of them merged rows, as many as the limit allows, scores never increasing
\* along the list, and no merged row left out has a strictly higher score
\* than a row of the list.
C24_PoolSortedAndTruncated ==
    \A r \in Req :
        LET pool == rq[r].candidateDocs
            merged == rq[r].combined
        IN  /\ Len(pool) <= 10
            /\ Len(pool) = (IF Cardinality(merged) < 10 THEN Cardinality(merged) ELSE 10)
            /\ \A i \in 1 .. Len(pool) : pool[i] \in merged
            /\ \A i, j \in 1 .. Len(pool) : i < j => pool[i].id # pool[j].id
            /\ \A i, j \in 1 .. Len(pool) :
                  i < j => NumLE(pool[j].score, pool[i].score)
            /\ \A row \in merged :
                  row.id \notin CandidateIds(r) =>
                      \A i \in 1 .. Len(pool) : NumLE(row.score, pool[i].score)

\* C24 witness: a search merged more rows than the pool holds, with distinct
\* scores among the returned rows, and returned 10 of them.
C24_Witness ==
    \E r \in Req :
        /\ Cardinality(rq[r].combined) > 10
        /\ Len(rq[r].candidateDocs) = 10
        /\ NumLT(rq[r].candidateDocs[10].score, rq[r].candidateDocs[1].score)

\* what a step of a query may do to the stores: nothing to the chunks, and to
\* sessions and messages only appends of new rows
StoresOnlyAppended ==
    /\ documents' = documents
    /\ chatSessions \subseteq chatSessions'
    /\ \A s \in chatSessions' \ chatSessions :
          \A old \in chatSessions : old.id # s.id
    /\ Len(chatMessages') >= Len(chatMessages)
    /\ SubSeq(chatMessages', 1, Len(chatMessages)) = chatMessages

\* C25: no step of a query creates, updates or deletes a chunk, or updates or
\* deletes an existing chat session or message: the chunk store is unchanged
\* and the only writes are appends of a new session and of new messages.
C25_StoresOnlyAppended == [][StoresOnlyAppended]_vars

\* C25 witness: a query has created a session and written both messages, and
\* the chunk store is as it was.
C25_Witness ==
    /\ documents = InitialDocuments
    /\ chatSessions # InitialSessions
    /\ InitialSessions \subseteq chatSessions
    /\ Len(chatMessages) = 2

\* the body of an authenticated request has been read, and its query is
\* missing, empty or not a string, or its selectedDocumentIds is present and
\* not an array of integers
MalformedRequest(r) ==
    /\ rq[r].userId \in Users
    /\ rq[r].pc \notin {"idle", "authenticated"}
    /\ \/ rq[r].body.query = ""
       \/ rq[r].body.selectedDocumentIds.kind \in {"notArray", "notIntegers"}

\* C26: a request whose query is missing, empty or not a string, or whose
\* selectedDocumentIds is present but not an array of integers, is answered
\* with a bad-request response, and no ownership, embedding, retrieval,
\* rerank, generation or persistence call is made for it.
C26_MalformedRequestRejected ==
    \A r \in Req :
        MalformedRequest(r) =>
            /\ rq[r].pc = "done"
            /\ rq[r].response.status = 400
            /\ rq[r].response.kind = "badRequest"
            /\ rq[r].calls = <<>>
            /\ \A i \in 1 .. Len(chatMessages) : chatMessages[i].request # r

\* the orders in which the executor may yield rows with equal sort keys
RowOrders == {"asc", "desc"}

\* an allow-list naming every chunk of a user
AllDocumentIdsOf(userId) ==
    LET owned == {id \in ChunkIds : documents[id].user_id = userId}
    IN  SomeDocumentIds(OrderBy(owned, [id \in owned |-> 0], "asc"))

\* C27: selecting all documents is the same as selecting none: for a search
\* the route ran without an allow-list, hybridSearch for the same query and
\* owner with an allow-list of all the owner's chunk ids returns, on any run,
\* the same candidates with the same scores.
C27_AllSelectedIsNoneSelected ==
    \A r \in Req :
        (/\ "hybridSearch" \in SeqRange(rq[r].calls)
         /\ rq[r].response.failedAt # "hybridSearch"
         /\ ~rq[r].validatedDocumentIds.present) =>
            \A ro \in RowOrders :
                SeqRange(hybridSearch(documents, rq[r].body.query, rq[r].userId, PoolLimit,
                                      AllDocumentIdsOf(rq[r].userId), ro))
                    = SeqRange(rq[r].candidateDocs)

\* C28: a query appends messages only to a chat session owned by the
\* authenticated requester: every message a request wrote is in a session
\* whose owner is that request's user, so a sessionId of another user's
\* session leaves that session's message list as it was.
C28_MessagesOnlyToOwnSession ==
    \A i \in 1 .. Len(chatMessages) :
        \A s \in chatSessions :
            s.id = chatMessages[i].sessionId =>
                s.userId = rq[chatMessages[i].request].userId

\* the messages of one chat session, in stored order
SessionMessages(sid) ==
    LET InSession(m) == m.sessionId = sid
    IN  SelectSeq(chatMessages, InSession)

\* C29: for two requests persisting concurrently into the same session, in
\* every interleaving each stored assistant answer directly follows the user
\* question of its own query: one query's user message is never stored
\* between the other query's user message and its assistant answer.
C29_PairsAdjacent ==
    \A s \in chatSessions :
        LET list == SessionMessages(s.id)
        IN  \A i \in 1 .. Len(list) :
                list[i].role = "assistant" =>
                    /\ i > 1
                    /\ list[i - 1].role = "user"
                    /\ list[i - 1].request = list[i].request

\* the terminal outcomes of POST
TerminalOutcomes == {"unauthorized", "badRequest", "empty", "answer", "error"}

\* a request that has returned keeps its response, and takes no further step
ReturnedIsFinal ==
    \A r \in Req : rq[r].pc = "done" => rq'[r] = rq[r]

\* C30: when every external call eventually returns or throws, every
\* invocation of POST eventually returns, with exactly one of the terminal
\* outcomes (unauthorized, bad request, empty, answer, error), which it keeps;
\* an invocation that has not returned has no response yet.
C30_Terminates ==
    /\ \A r \in Req : (r \in started) ~> (rq[r].pc = "done")
    /\ [](\A r \in Req :
             IF rq[r].pc = "done"
             THEN rq[r].response.kind \in TerminalOutcomes
             ELSE rq[r].response = NoResponse)
    /\ [][ReturnedIsFinal]_vars

\* C30 witness: an invocation has gone through every stage and returned its
\* answer.
C30_Witness ==
    \E r \in Req :
        /\ rq[r].pc = "done"
        /\ rq[r].response.kind = "answer"
        /\ Len(rq[r].calls) = 8

====
